---- MODULE Spec2Model ----
(***************************************************************************)
(* Hashprice dashboard (src/src/App.tsx): the three panels of the React    *)
(* application, their inputs, and the 36-month series each one computes.   *)
(*                                                                         *)
(* Numbers.  A JavaScript number is modelled as a record                   *)
(*     [k |-> "fin", v |-> <integer>]   or   [k |-> "nan", v |-> 0].       *)
(* A finite number is carried as an integer count of a fixed unit, named   *)
(* beside every quantity (cents, micro-dollars, per-mille, ...).  Products *)
(* are rounded toward zero to the unit of the result, where IEEE doubles   *)
(* round to 53 bits; sums of amounts in one unit are exact.  NaN           *)
(* propagates through every arithmetic operation as it does in JavaScript. *)
(*                                                                         *)
(* Dates.  A JavaScript Date is modelled by its time value in whole days   *)
(* since 1 January 1970 (local time, time of day dropped); the getters and *)
(* the Date constructor are the ECMAScript day-number algorithms.          *)
(***************************************************************************)
EXTENDS Integers, Sequences, FiniteSets, TLC

(***************************************************************************)
(* Shared params (App.tsx 20-41)                                           *)
(***************************************************************************)
\* scaling constant for HP_USD
K == 20116568
\* fixed horizon (months)
MONTHS == 36
\* price growth and decay, per-mille per month
GP == 39
DP == 70
\* difficulty growth and decay, per-mille per month
GD == 34
DD == 60
\* fees/day growth (negative) and decay, per-mille per month
GF == -45
DF == 60
\* initial price, dollars
P0_PARAM == 110000
\* initial difficulty, units of 10^9 (129.7e12)
D0_PARAM == 129700
\* initial fees per day, micro-BTC (3.87 BTC)
FEES0_PARAM == 3870000
\* blocks per day
BLOCKS_PER_DAY == 144
\* J/TH (start), J/TH (3-year target), per-mille per month
E0_PARAM == 28
EEND_PARAM == 16
KE_PARAM == 30
\* premium decay k_p, per-mille per month: Energy tab, Protocol/Market tab
KP_ENERGY_FIXED == 60
KP_MARKET_FIXED == 90
\* premium_0, per-mille (0.263)
PF0_PARAM == 263
\* $/kWh for energy floor charts, milli-dollars (0.05)
CE_PARAM == 50
\* the factor 0.024 of the energy floor, per-mille
FLOOR_FACTOR == 24
\* block subsidy before / from the cutover, micro-BTC (3.125, 1.575)
SUBSIDY_BEFORE == 3125000
SUBSIDY_AFTER == 1575000
\* the cutover of the subsidy: new Date(2028, 3, 1)
HALVING_YEAR == 2028
HALVING_MONTH == 3
\* the month of the tax credit: new Date(2026, 3, 1)
TAX_YEAR == 2026
TAX_MONTH == 3
\* the security deposit: 2 months at 31 days
HOURS_PER_DAY == 24
DEPOSIT_DAYS == 31
DEPOSIT_MONTHS == 2

(***************************************************************************)
(* Fixed-point units                                                       *)
(***************************************************************************)
MILLI == 10 * 10 * 10
MICRO == MILLI * MILLI
\* the largest integer of the arithmetic the model is evaluated in
INT_MAX == (2^30 - 1) + 2^30
\* number of terms of the exponential series
EXP_TERMS == 18

(***************************************************************************)
(* Integer helpers                                                         *)
(***************************************************************************)
Abs(x) == IF x < 0 THEN -x ELSE x

Sgn(x) == IF x < 0 THEN -1 ELSE IF x > 0 THEN 1 ELSE 0

\* the largest base in which the digit steps of UMulDivRem stay below 2^31
Radix(c) == IF c <= 2^20 THEN 2^10 ELSE IF c <= 2^25 THEN 2^5 ELSE 2^2

\* <<q, r>> with ua*ub = q*uc + r and 0 <= r < uc, digit by digit of ub in
\* base Radix(uc), so that no intermediate value exceeds 2*Radix(uc)*uc or the
\* quotient
UMulDivRem[ua \in Nat, ub \in Nat, uc \in Nat] ==
  IF ub = 0 THEN <<0, 0>>
  ELSE LET high == UMulDivRem[ua, ub \div Radix(uc), uc]
           digit == ub % Radix(uc)
           rest == Radix(uc) * high[2] + digit * (ua % uc)
       IN <<Radix(uc) * high[1] + digit * (ua \div uc) + rest \div uc, rest % uc>>

\* a*b/c rounded toward zero (c > 0): directly when the product fits, else by
\* digit by digit of the smaller factor
MulDiv(a, b, c) ==
  LET x == Abs(a)
      y == Abs(b)
  IN Sgn(a) * Sgn(b) *
       (IF x = 0 \/ y = 0 THEN 0
        ELSE IF x <= INT_MAX \div y THEN (x * y) \div c
        ELSE IF x >= y THEN UMulDivRem[x, y, c][1]
        ELSE UMulDivRem[y, x, c][1])

\* a/c rounded toward zero (c > 0)
DivTrunc(a, c) == Sgn(a) * (Abs(a) \div c)

\* sum + sum_{i <= n <= EXP_TERMS} ey^n / n! at scale MICRO, where term is
\* ey^(i-1) / (i-1)!; the terms after a zero term are zero
ExpTerms[i \in Nat, term \in Int, sum \in Int, ey \in Int] ==
  IF i > EXP_TERMS \/ term = 0 THEN sum
  ELSE ExpTerms[i + 1, MulDiv(term, ey, i * MICRO),
                sum + MulDiv(term, ey, i * MICRO), ey]

ExpSeries[ey \in Int] == ExpTerms[1, MICRO, MICRO, ey]

\* the exponents -k*t of the decay paths with the fixed rates, at scale MICRO
ExpMemoArgs ==
  {-(k * t * MILLI) : k \in {KE_PARAM, KP_ENERGY_FIXED, KP_MARKET_FIXED, DP, DD},
                     t \in 0..MONTHS}

\* the series evaluated once for the exponents that recur in every run
ExpMemo == [em \in ExpMemoArgs |-> ExpSeries[em]]

\* Math.exp(y / MICRO) at scale MICRO; Math.exp of a double below -745.14 is 0
Exp(y) ==
  IF y <= -746 * MICRO THEN 0
  ELSE IF y \in ExpMemoArgs THEN ExpMemo[y] ELSE ExpSeries[y]

(***************************************************************************)
(* JavaScript numbers                                                      *)
(***************************************************************************)
Fin(v) == [k |-> "fin", v |-> v]

NaN == [k |-> "nan", v |-> 0]

\* +Infinity (s = 1) or -Infinity (s = -1)
Inf(s) == [k |-> "inf", v |-> s]

\* Number.isFinite
IsFinite(x) == x.k = "fin"

IsNaN(x) == x.k = "nan"

\* the sign of a number that is not NaN
NSgn(x) == IF IsFinite(x) THEN Sgn(x.v) ELSE x.v

NNeg(x) == IF IsNaN(x) THEN NaN ELSE [x EXCEPT !.v = -x.v]

NAdd(x, y) ==
  IF IsNaN(x) \/ IsNaN(y) THEN NaN
  ELSE IF IsFinite(x) /\ IsFinite(y) THEN Fin(x.v + y.v)
  ELSE IF IsFinite(x) THEN y
  ELSE IF IsFinite(y) \/ x.v = y.v THEN x
  ELSE NaN

NSub(x, y) == NAdd(x, NNeg(y))

\* a non-finite product: 0 * Infinity is NaN
NonFiniteMul(x, y) ==
  IF IsNaN(x) \/ IsNaN(y) \/ NSgn(x) = 0 \/ NSgn(y) = 0 THEN NaN
  ELSE Inf(NSgn(x) * NSgn(y))

\* x * y, in the product of the two units
NMul(x, y) ==
  IF IsFinite(x) /\ IsFinite(y) THEN Fin(x.v * y.v) ELSE NonFiniteMul(x, y)

\* x * y / c, rescaled by the unit constant c > 0
NMulDiv(x, y, c) ==
  IF IsFinite(x) /\ IsFinite(y) THEN Fin(MulDiv(x.v, y.v, c))
  ELSE NonFiniteMul(x, y)

\* x / c, rescaled by the unit constant c > 0
NScale(x, c) == IF IsFinite(x) THEN Fin(DivTrunc(x.v, c)) ELSE x

\* x * s / y for numbers x and y and the unit constant s > 0
NDiv(x, s, y) ==
  IF IsNaN(x) \/ IsNaN(y) THEN NaN
  ELSE IF IsFinite(x) /\ IsFinite(y)
    THEN IF y.v # 0 THEN Fin(Sgn(y.v) * MulDiv(x.v, s, Abs(y.v)))
         ELSE IF x.v = 0 THEN NaN ELSE Inf(Sgn(x.v))
  ELSE IF IsFinite(y) THEN Inf(x.v * (IF y.v < 0 THEN -1 ELSE 1))
  ELSE IF IsFinite(x) THEN Fin(0)
  ELSE NaN

\* Math.exp of a number at scale MICRO
NExp(x) ==
  IF IsFinite(x) THEN Fin(Exp(x.v))
  ELSE IF IsNaN(x) THEN NaN
  ELSE IF x.v > 0 THEN x ELSE Fin(0)

(***************************************************************************)
(* Dates (ECMAScript day numbers)                                          *)
(***************************************************************************)
DayFromYear(y) ==
  365 * (y - 1970) + ((y - 1969) \div 4) - ((y - 1901) \div 100)
    + ((y - 1601) \div 400)

InLeapYear(y) == (y % 4 = 0 /\ y % 100 # 0) \/ y % 400 = 0

\* day within the year of the first day of month m (0-based)
MonthStart(m, leap) ==
  LET base == <<0, 31, 59, 90, 120, 151, 181, 212, 243, 273, 304, 334>>
  IN base[m + 1] + (IF leap /\ m >= 2 THEN 1 ELSE 0)

\* MakeDay(year, month, date): month may lie outside 0..11, date outside the month
MakeDay(year, month, date) ==
  LET ym == year + (month \div 12)
      mn == month % 12
  IN DayFromYear(ym) + MonthStart(mn, InLeapYear(ym)) + date - 1

getFullYear(t) ==
  LET e == 1970 + (t \div 365)
  IN IF DayFromYear(e) <= t THEN e ELSE e - 1

getMonth(t) ==
  LET y == getFullYear(t)
      dy == t - DayFromYear(y)
  IN CHOOSE m \in 0..11 :
       /\ MonthStart(m, InLeapYear(y)) <= dy
       /\ (m = 11 \/ dy < MonthStart(m + 1, InLeapYear(y)))

getDate(t) ==
  LET y == getFullYear(t)
  IN t - DayFromYear(y) - MonthStart(getMonth(t), InLeapYear(y)) + 1

\* new Date(year, month, date)
NewDate(year, month, date) == MakeDay(year, month, date)

\* d.setMonth(d.getMonth() + m) on a copy of date
addMonths(date, m) ==
  MakeDay(getFullYear(date), getMonth(date) + m, getDate(date))

\* variant: the length of the month before the date's month
daysInMonthOfPrevious(date) ==
  getDate(NewDate(getFullYear(date), getMonth(date), 0))

\* new Date(date.getFullYear(), date.getMonth() + 1, 0).getDate()
daysInMonth(date) ==
  getDate(NewDate(getFullYear(date), getMonth(date) + 1, 0))

\* `MM/YY`: the month number and the last two digits of the year
fmtMMYY(d) == <<getMonth(d) + 1, getFullYear(d) % 100>>

(***************************************************************************)
(* Math helpers (App.tsx 46-72).  Units of the arguments and results:      *)
(*   R, F micro-BTC; P dollars; D 10^9; hashprice micro-dollars/TH-day;    *)
(*   e milli-J/TH; ce milli-dollars/kWh; premium at scale MICRO;           *)
(*   rates g, d, k per-mille per month; revenue cents.                     *)
(***************************************************************************)
\* variant: the fees less the reward
hashpriceUSDFeesLessReward(R, F, P, D) ==
  NScale(NDiv(NMulDiv(NSub(F, R), P, MILLI), K, NMul(D, Fin(MILLI))), MILLI)

\* (K * (R + F) * P) / D
hashpriceUSD(R, F, P, D) ==
  NScale(NDiv(NMulDiv(NAdd(R, F), P, MILLI), K, NMul(D, Fin(MILLI))), MILLI)

\* variant: e * ce, without the factor of 0.024
energyFloorWithoutFactor(e, ce) == NMulDiv(e, ce, MILLI)

\* 0.024 * e * ce
energyFloorUSDPerTHDay(e, ce) == NMulDiv(NMul(Fin(FLOOR_FACTOR), e), ce, MILLI)

\* variant: floorHP * (1 + premium), the additive term dropped
effectiveHPWithoutAdditive(floorHP, premium, additive) ==
  NMulDiv(floorHP, NAdd(Fin(MICRO), premium), MICRO)

\* floorHP * (1 + premium) + additive
effectiveHP(floorHP, premium, additive) ==
  NAdd(NMulDiv(floorHP, NAdd(Fin(MICRO), premium), MICRO), additive)

\* HPusdPerTHDay * thps * days, micro-dollars to cents
monthlyRevenue(HPusdPerTHDay, thps, days) ==
  NScale(NMul(NMulDiv(HPusdPerTHDay, thps, 100), days), 100)

\* variant: HPusdPerTHDay / e, without the factor of 0.024
EHPWithoutFactor(HPusdPerTHDay, e) == NDiv(HPusdPerTHDay, MICRO, e)

\* HPusdPerTHDay / (0.024 * e), micro-dollars per kWh
EHP_usd_per_kWh(HPusdPerTHDay, e) ==
  NDiv(HPusdPerTHDay, MICRO, NMul(Fin(FLOOR_FACTOR), e))

\* variant: the growth of month t + 1
gompertzOfNextMonth(t, x0, g, d) ==
  LET inner == NSub(Fin(MICRO), NExp(NMul(d, Fin(-(t + 1) * MILLI))))
      ratio == NDiv(g, MICRO, d)
  IN NMulDiv(x0, NExp(NMulDiv(ratio, inner, MICRO)), MICRO)

\* x0 * Math.exp((g / d) * (1 - Math.exp(-d * t)))
gompertz(t, x0, g, d) ==
  LET inner == NSub(Fin(MICRO), NExp(NMul(d, Fin(-t * MILLI))))
      ratio == NDiv(g, MICRO, d)
  IN NMulDiv(x0, NExp(NMulDiv(ratio, inner, MICRO)), MICRO)

\* variant: e0 + (eEnd - e0) * Math.exp(-k * t), from the target to the start
efficiencyPathFromTarget(t, e0, eEnd, k) ==
  NAdd(e0, NMulDiv(NSub(eEnd, e0), NExp(NMul(k, Fin(-t * MILLI))), MICRO))

\* eEnd + (e0 - eEnd) * Math.exp(-k * t)
efficiencyPath(t, e0, eEnd, k) ==
  NAdd(eEnd, NMulDiv(NSub(e0, eEnd), NExp(NMul(k, Fin(-t * MILLI))), MICRO))

\* variant: pf0 in every month, without the decay
premiumPathWithoutDecay(t, pf0, k) == NMulDiv(pf0, Fin(MICRO), MILLI)

\* pf0 * Math.exp(-k * t), per-mille to scale MICRO
premiumPath(t, pf0, k) == NMulDiv(pf0, NExp(NMul(k, Fin(-t * MILLI))), MILLI)

\* variant: the cutover day itself still pays the high reward
subsidyForDateInclusive(d) ==
  IF d <= NewDate(HALVING_YEAR, HALVING_MONTH, 1) THEN Fin(SUBSIDY_BEFORE)
  ELSE Fin(SUBSIDY_AFTER)

\* d < new Date(2028, 3, 1) ? 3.125 : 1.575
subsidyForDate(d) ==
  IF d < NewDate(HALVING_YEAR, HALVING_MONTH, 1) THEN Fin(SUBSIDY_BEFORE)
  ELSE Fin(SUBSIDY_AFTER)

(***************************************************************************)
(* Bounds of the model                                                     *)
(***************************************************************************)
\* the last year in which the application is opened (calendar runs)
LastStartYear == 2026
\* the number of input changes of a session
MaxChanges == 1

\* the dates on which the application is opened in the calendar runs
StartDates ==
  {NewDate(y, m, d) : y \in 2025..LastStartYear, m \in 0..11,
                      d \in {1, 15, 28, 29, 30, 31}}

\* the dates on which the application is opened in the sessions with input
\* changes: the tax month ahead, and the tax month skipped by the overflow of
\* day 31
SessionDates == {NewDate(2025, 8, 15), NewDate(2026, 0, 31)}

(***************************************************************************)
(* Panels and their inputs.  Units of the inputs: thps TH/s; ce and        *)
(* hostingRate milli-dollars/kWh; premium0, pf0, poolFee and uptime        *)
(* per-mille; addDelta micro-dollars/TH-day; unitCost and setupPerMiner    *)
(* dollars; minerKW tenths of a kW; taxPct and salvagePct per cent.        *)
(***************************************************************************)
Panels == {"energy", "protocol", "formulas"}

\* the useState initial values of EnergyAdjustedPanel
EnergyDefaults ==
  [thps |-> Fin(270), useSchedule |-> TRUE, ce |-> Fin(CE_PARAM),
   premium0 |-> Fin(PF0_PARAM), addDelta |-> Fin(0), qty |-> Fin(10),
   unitCost |-> Fin(8000), minerKW |-> Fin(35), hostingRate |-> Fin(50),
   setupPerMiner |-> Fin(25), taxPct |-> Fin(21), poolFee |-> Fin(10),
   uptime |-> Fin(990), salvagePct |-> Fin(20)]

\* the useState initial values of ProtocolEquilibriumPanel
ProtocolDefaults ==
  [pf0 |-> Fin(PF0_PARAM), thps |-> Fin(270), qty |-> Fin(10),
   unitCost |-> Fin(8000), minerKW |-> Fin(35), hostingRate |-> Fin(50),
   setupPerMiner |-> Fin(25), taxPct |-> Fin(21), poolFee |-> Fin(20),
   salvagePct |-> Fin(20)]

\* the inputs bound to a NumberField
EnergyNumberFields ==
  {"thps", "ce", "premium0", "addDelta", "qty", "unitCost", "minerKW",
   "hostingRate", "setupPerMiner", "uptime"}

ProtocolNumberFields ==
  {"pf0", "thps", "qty", "unitCost", "minerKW", "hostingRate", "setupPerMiner"}

\* the inputs bound to a PercentNumberField or a PercentSliderPct
PercentFields == {"poolFee", "taxPct", "salvagePct"}

\* variant: uptime is missing from the dependency list
EnergyDepsWithoutUptime ==
  {"startDate", "useSchedule", "ce", "premium0", "addDelta", "thps", "qty",
   "unitCost", "minerKW", "hostingRate", "setupPerMiner", "taxPct", "poolFee",
   "salvagePct"}

\* the dependency lists of the two series (App.tsx 290-306, 588-600)
EnergyDeps ==
  {"startDate", "useSchedule", "ce", "premium0", "addDelta", "thps", "qty",
   "unitCost", "minerKW", "hostingRate", "setupPerMiner", "taxPct", "poolFee",
   "uptime", "salvagePct"}

ProtocolDeps ==
  {"startDate", "pf0", "thps", "qty", "unitCost", "minerKW", "hostingRate",
   "setupPerMiner", "taxPct", "poolFee", "salvagePct"}

\* the texts typed into an input element: <<>> is the cleared field, <<n>> a
\* numeral worth n units of the field
Texts(f) ==
  CASE f = "thps" -> {<<>>, <<0>>}
    [] f = "qty" -> {<<>>, <<12>>}
    [] f = "uptime" -> {<<>>, <<950>>, <<1200>>}
    [] f = "pf0" -> {<<>>}
    [] f = "premium0" -> {<<1500>>}
    [] f = "addDelta" -> {<<5000>>}
    [] f = "poolFee" -> {<<>>, <<1500>>}
    [] f = "taxPct" -> {<<150>>}
    [] f = "salvagePct" -> {<<10>>, <<-20>>}
    [] OTHER -> {}

\* parseFloat(e.target.value)
parseFloat(text) == IF text = <<>> THEN NaN ELSE Fin(text[1])

\* x || 0
OrZero(x) == IF IsNaN(x) THEN Fin(0) ELSE x

(***************************************************************************)
(* The rows of the three series                                            *)
(***************************************************************************)
\* the market trends, which depend on the month index alone
PriceTrend == [t \in 0..MONTHS |-> gompertz(t, Fin(P0_PARAM), Fin(GP), Fin(DP))]

DifficultyTrend ==
  [t \in 0..MONTHS |-> gompertz(t, Fin(D0_PARAM), Fin(GD), Fin(DD))]

FeesTrend == [t \in 0..MONTHS |-> gompertz(t, Fin(FEES0_PARAM), Fin(GF), Fin(DF))]

\* variant: an uptime above 1 counts as 1
EnergyGrossUSDClamped(in, hp, dim) ==
  NMulDiv(monthlyRevenue(hp, NMul(in.thps, in.qty), Fin(dim)),
          IF IsFinite(in.uptime) /\ in.uptime.v > MILLI THEN Fin(MILLI) ELSE in.uptime,
          MILLI)

\* grossUSD of EnergyAdjustedPanel: monthlyRevenue(hp, thps * qty, dim) * uptime
EnergyGrossUSD(in, hp, dim) ==
  NMulDiv(monthlyRevenue(hp, NMul(in.thps, in.qty), Fin(dim)), in.uptime, MILLI)

\* variant: nameplate power, without the uptime factor
EnergyPowerUSDNameplate(in, dim) ==
  NScale(NMul(NMul(NMul(NMul(in.minerKW, in.hostingRate), in.qty),
                   Fin(HOURS_PER_DAY)), Fin(dim)), 100)

\* powerUSD of EnergyAdjustedPanel:
\* minerKW * hostingRate * qty * 24 * dim * uptime
EnergyPowerUSD(in, dim) ==
  NScale(NMulDiv(NMul(NMul(NMul(NMul(in.minerKW, in.hostingRate), in.qty),
                           Fin(HOURS_PER_DAY)), Fin(dim)),
                 in.uptime, MILLI), 100)

\* variant: the gross revenue derated by the default uptime
ProtocolRevGrossWithUptime(in, hp, dim) ==
  NMulDiv(monthlyRevenue(hp, NMul(in.thps, in.qty), Fin(dim)), EnergyDefaults.uptime,
          MILLI)

\* revGross of ProtocolEquilibriumPanel: monthlyRevenue(hp, thps * qty, dim)
ProtocolRevGross(in, hp, dim) ==
  monthlyRevenue(hp, NMul(in.thps, in.qty), Fin(dim))

\* powerUSD of ProtocolEquilibriumPanel: minerKW * hostingRate * qty * 24 * dim
ProtocolPowerUSD(in, dim) ==
  NScale(NMul(NMul(NMul(NMul(in.minerKW, in.hostingRate), in.qty),
                   Fin(HOURS_PER_DAY)), Fin(dim)), 100)

\* variant: the schedule is followed whatever the switch
EnergyEfficiencyAlwaysScheduled(in, t) ==
  efficiencyPath(t, Fin(E0_PARAM * MILLI), Fin(EEND_PARAM * MILLI), Fin(KE_PARAM))

\* useSchedule ? efficiencyPath(t, E0_PARAM, EEND_PARAM, KE_PARAM) : E0_PARAM
EnergyEfficiency(in, t) ==
  IF in.useSchedule
    THEN efficiencyPath(t, Fin(E0_PARAM * MILLI), Fin(EEND_PARAM * MILLI),
                        Fin(KE_PARAM))
    ELSE Fin(E0_PARAM * MILLI)

\* the constants of the callback of Array.from in EnergyAdjustedPanel
EnergyLocals(in, start, t) ==
  LET date == addMonths(start, t)
      dim == daysInMonth(date)
      e == EnergyEfficiency(in, t)
      floor == energyFloorUSDPerTHDay(e, in.ce)
      prem == premiumPath(t, in.premium0, Fin(KP_ENERGY_FIXED))
      hp == effectiveHP(floor, prem, in.addDelta)
      grossUSD == EnergyGrossUSD(in, hp, dim)
      netPoolUSD == NMulDiv(grossUSD, NSub(Fin(MILLI), in.poolFee), MILLI)
      powerUSD == EnergyPowerUSD(in, dim)
      netUSD == NSub(netPoolUSD, powerUSD)
  IN [t |-> t, date |-> date, dim |-> dim, label |-> fmtMMYY(date), e |-> e,
      floor |-> floor, prem |-> prem, hp |-> hp, gross |-> grossUSD,
      netPool |-> netPoolUSD, power |-> powerUSD, net |-> netUSD,
      ehp |-> EHP_usd_per_kWh(hp, e)]

\* the object the callback returns
EnergyRow(in, start, t) ==
  LET l == EnergyLocals(in, start, t)
  IN [f \in {"t", "date", "label", "e", "floor", "prem", "hp", "gross", "power",
             "net", "ehp"} |-> l[f]]

\* the constants of the callback of Array.from in ProtocolEquilibriumPanel
ProtocolLocals(in, start, t) ==
  LET date == addMonths(start, t)
      dim == daysInMonth(date)
      P == PriceTrend[t]
      D == DifficultyTrend[t]
      FeesBTCperDay == FeesTrend[t]
      F == NScale(FeesBTCperDay, BLOCKS_PER_DAY)
      R == subsidyForDate(date)
      hpProtocol == hashpriceUSD(R, F, P, D)
      prem == premiumPath(t, in.pf0, Fin(KP_MARKET_FIXED))
      hp == effectiveHP(hpProtocol, prem, Fin(0))
      revGross == ProtocolRevGross(in, hp, dim)
      powerUSD == ProtocolPowerUSD(in, dim)
      rev == NSub(NMulDiv(revGross, NSub(Fin(MILLI), in.poolFee), MILLI), powerUSD)
  IN [t |-> t, date |-> date, dim |-> dim, label |-> fmtMMYY(date), P |-> P,
      D |-> D, F |-> F, R |-> R, hpProtocol |-> hpProtocol, prem |-> prem,
      hp |-> hp, revGross |-> revGross, powerUSD |-> powerUSD, rev |-> rev]

ProtocolRow(in, start, t) ==
  LET l == ProtocolLocals(in, start, t)
  IN [f \in {"t", "date", "label", "P", "D", "F", "R", "hpProtocol", "prem", "hp",
             "rev"} |-> l[f]]

\* the object the callback of Array.from in FormulasCharts returns
FormulasRow(start, t) ==
  LET date == addMonths(start, t)
      P == PriceTrend[t]
      D == DifficultyTrend[t]
      e == efficiencyPath(t, Fin(E0_PARAM * MILLI), Fin(EEND_PARAM * MILLI),
                          Fin(KE_PARAM))
      premium == premiumPath(t, Fin(PF0_PARAM), Fin(KP_MARKET_FIXED))
      FeesBTCperDay == FeesTrend[t]
      F == NScale(FeesBTCperDay, BLOCKS_PER_DAY)
      R == subsidyForDate(date)
      hpProtocol == hashpriceUSD(R, F, P, D)
      hpProtocolEff == NMulDiv(hpProtocol, NAdd(Fin(MICRO), premium), MICRO)
      hpEnergy == energyFloorUSDPerTHDay(e, Fin(CE_PARAM))
      hpEnergyEff == NMulDiv(hpEnergy, NAdd(Fin(MICRO), premium), MICRO)
  IN [t |-> t, label |-> fmtMMYY(date), P |-> P, D |-> D, D_T |-> NScale(D, MILLI),
      e |-> e, premium |-> premium, FeesBTCperDay |-> FeesBTCperDay, F |-> F,
      R |-> R, hpProtocol |-> hpProtocol, hpProtocolEff |-> hpProtocolEff,
      hpEnergy |-> hpEnergy, hpEnergyEff |-> hpEnergyEff]

\* variant: Array.from({ length: MONTHS }, ...)
EnergyRowsShort(in, start) == [i \in 1..MONTHS |-> EnergyRow(in, start, i - 1)]

\* Array.from({ length: MONTHS + 1 }, (_, t) => ...)
EnergyRows(in, start) == [i \in 1..(MONTHS + 1) |-> EnergyRow(in, start, i - 1)]

ProtocolRows(in, start) == [i \in 1..(MONTHS + 1) |-> ProtocolRow(in, start, i - 1)]

FormulasRows(start) == [i \in 1..(MONTHS + 1) |-> FormulasRow(start, i - 1)]

(***************************************************************************)
(* The constants of the accumulation, in cents                             *)
(***************************************************************************)
\* variant: two months of DEPOSIT_DAYS - 1 days
SecurityDepositShortMonth(in) ==
  NScale(NMul(NMul(NMul(NMul(NMul(in.minerKW, in.hostingRate), in.qty),
                        Fin(HOURS_PER_DAY)),
                   Fin(DEPOSIT_DAYS - 1)), Fin(DEPOSIT_MONTHS)), 100)

\* minerKW * hostingRate * qty * 24 * 31 * 2
SecurityDeposit(in) ==
  NScale(NMul(NMul(NMul(NMul(NMul(in.minerKW, in.hostingRate), in.qty),
                        Fin(HOURS_PER_DAY)),
                   Fin(DEPOSIT_DAYS)), Fin(DEPOSIT_MONTHS)), 100)

\* qty * unitCost + securityDeposit + qty * setupPerMiner
InitialCost(in) ==
  NAdd(NAdd(NMul(NMul(in.qty, in.unitCost), Fin(100)), SecurityDeposit(in)),
       NMul(NMul(in.qty, in.setupPerMiner), Fin(100)))

\* taxPct * (qty * unitCost)
TaxCredit(in) == NMul(in.taxPct, NMul(in.qty, in.unitCost))

\* salvagePct * qty * unitCost
Salvage(in) == NMul(NMul(in.salvagePct, in.qty), in.unitCost)

\* variant: the year of the date alone is compared
InTaxYear(date) ==
  LET april2026 == NewDate(TAX_YEAR, TAX_MONTH, 1)
  IN getFullYear(date) = getFullYear(april2026)

\* row.date.getFullYear() === april2026.getFullYear() &&
\* row.date.getMonth() === april2026.getMonth()
InTaxMonth(date) ==
  LET april2026 == NewDate(TAX_YEAR, TAX_MONTH, 1)
  IN /\ getFullYear(date) = getFullYear(april2026)
     /\ getMonth(date) = getMonth(april2026)

\* if (row.t === MONTHS) in EnergyAdjustedPanel
EnergyIsTerminal(row) == row.t = MONTHS

\* variant: the last two rows are terminal
ProtocolIsTerminalFromPenultimate(row) == row.t >= MONTHS - 1

\* if (row.t === MONTHS) in ProtocolEquilibriumPanel
ProtocolIsTerminal(row) == row.t = MONTHS

\* variant: the energy panel adds the salvage alone
EnergyTerminalAdditionSalvageOnly(in) == Salvage(in)

\* cumulative += salvage + securityDeposit
EnergyTerminalAddition(in) == NAdd(Salvage(in), SecurityDeposit(in))

\* variant: the protocol panel returns the deposit too
ProtocolTerminalAdditionWithDeposit(in) == NAdd(Salvage(in), SecurityDeposit(in))

\* cumulative += salvage
ProtocolTerminalAddition(in) == Salvage(in)

\* variant: the row's net replaces the total instead of being added to it
EnergyAccumulateOverwrite(c, row, in) ==
  LET c1 == IF InTaxMonth(row.date) THEN NAdd(c, TaxCredit(in)) ELSE c
      c2 == row.net
  IN IF EnergyIsTerminal(row) THEN NAdd(c2, EnergyTerminalAddition(in)) ELSE c2

\* the body of the loop of EnergyAdjustedPanel: the new value of cumulative
EnergyAccumulate(c, row, in) ==
  LET c1 == IF InTaxMonth(row.date) THEN NAdd(c, TaxCredit(in)) ELSE c
      c2 == NAdd(c1, row.net)
  IN IF EnergyIsTerminal(row) THEN NAdd(c2, EnergyTerminalAddition(in)) ELSE c2

\* the body of the loop of ProtocolEquilibriumPanel: the new value of cumulative
ProtocolAccumulate(c, row, in) ==
  LET c1 == IF InTaxMonth(row.date) THEN NAdd(c, TaxCredit(in)) ELSE c
      c2 == NAdd(c1, row.rev)
  IN IF ProtocolIsTerminal(row) THEN NAdd(c2, ProtocolTerminalAddition(in)) ELSE c2

(***************************************************************************)
(* The panels of unnamed/part_002, where e0, eEnd, ke and the premium rate *)
(* are inputs (useState) and not constants.  in carries them next to the   *)
(* inputs the two versions share.                                          *)
(***************************************************************************)
\* the values App.tsx pins, as inputs of the energy panel of part_002
Part2EnergyPinned ==
  [e0 |-> Fin(E0_PARAM * MILLI), eEnd |-> Fin(EEND_PARAM * MILLI),
   ke |-> Fin(KE_PARAM), kPremium |-> Fin(KP_ENERGY_FIXED)]

\* the value App.tsx pins, as input of the protocol panel of part_002
Part2ProtocolPinned == [kp |-> Fin(KP_MARKET_FIXED)]

\* the object the callback of Array.from returns in EnergyAdjustedPanel
Part2EnergyRow(in, start, t) ==
  LET date == addMonths(start, t)
      dim == daysInMonth(date)
      e == IF in.useSchedule THEN efficiencyPath(t, in.e0, in.eEnd, in.ke) ELSE in.e0
      floor == energyFloorUSDPerTHDay(e, in.ce)
      prem == premiumPath(t, in.premium0, in.kPremium)
      hp == effectiveHP(floor, prem, in.addDelta)
      grossUSD == NMulDiv(monthlyRevenue(hp, NMul(in.thps, in.qty), Fin(dim)),
                          in.uptime, MILLI)
      netPoolUSD == NMulDiv(grossUSD, NSub(Fin(MILLI), in.poolFee), MILLI)
      powerUSD ==
        NScale(NMulDiv(NMul(NMul(NMul(NMul(in.minerKW, in.hostingRate), in.qty),
                                Fin(24)), Fin(dim)),
                       in.uptime, MILLI), 100)
      netUSD == NSub(netPoolUSD, powerUSD)
  IN [t |-> t, date |-> date, label |-> fmtMMYY(date), e |-> e, floor |-> floor,
      prem |-> prem, hp |-> hp, gross |-> grossUSD, power |-> powerUSD,
      net |-> netUSD, ehp |-> EHP_usd_per_kWh(hp, e)]

\* securityDeposit: minerKW * hostingRate * qty * 24 * 31 * 2
Part2SecurityDeposit(in) ==
  NScale(NMul(NMul(NMul(NMul(NMul(in.minerKW, in.hostingRate), in.qty), Fin(24)),
                   Fin(31)), Fin(2)), 100)

\* initialCost of either panel
Part2InitialCost(in) ==
  NAdd(NAdd(NMul(NMul(in.qty, in.unitCost), Fin(100)), Part2SecurityDeposit(in)),
       NMul(NMul(in.qty, in.setupPerMiner), Fin(100)))

\* row.date.getFullYear() === april2026.getFullYear() && row.date.getMonth() ===
\* april2026.getMonth()
Part2InTaxMonth(date) ==
  LET april2026 == NewDate(2026, 3, 1)
  IN getFullYear(date) = getFullYear(april2026) /\ getMonth(date) = getMonth(april2026)

\* variant: the deposit is not returned in the final month
Part2EnergyAccumulateWithoutDeposit(c, row, in) ==
  LET taxCredit == NMul(in.taxPct, NMul(in.qty, in.unitCost))
      salvage == NMul(NMul(in.salvagePct, in.qty), in.unitCost)
      c1 == IF Part2InTaxMonth(row.date) THEN NAdd(c, taxCredit) ELSE c
      c2 == NAdd(c1, row.net)
  IN IF row.t = MONTHS THEN NAdd(c2, salvage) ELSE c2

\* the body of the loop of EnergyAdjustedPanel
Part2EnergyAccumulate(c, row, in) ==
  LET taxCredit == NMul(in.taxPct, NMul(in.qty, in.unitCost))
      salvage == NMul(NMul(in.salvagePct, in.qty), in.unitCost)
      c1 == IF Part2InTaxMonth(row.date) THEN NAdd(c, taxCredit) ELSE c
      c2 == NAdd(c1, row.net)
  IN IF row.t = MONTHS THEN NAdd(c2, NAdd(salvage, Part2SecurityDeposit(in))) ELSE c2

\* the object the callback of Array.from returns in ProtocolEquilibriumPanel
Part2ProtocolRow(in, start, t) ==
  LET date == addMonths(start, t)
      dim == daysInMonth(date)
      P == gompertz(t, Fin(P0_PARAM), Fin(GP), Fin(DP))
      D == gompertz(t, Fin(D0_PARAM), Fin(GD), Fin(DD))
      FeesBTCperDay == gompertz(t, Fin(FEES0_PARAM), Fin(GF), Fin(DF))
      F == NScale(FeesBTCperDay, 144)
      R == subsidyForDate(date)
      hpProtocol == hashpriceUSD(R, F, P, D)
      prem == premiumPath(t, in.pf0, in.kp)
      hp == effectiveHP(hpProtocol, prem, Fin(0))
      revGross == monthlyRevenue(hp, NMul(in.thps, in.qty), Fin(dim))
      powerUSD ==
        NScale(NMul(NMul(NMul(NMul(in.minerKW, in.hostingRate), in.qty), Fin(24)),
                    Fin(dim)), 100)
      rev == NSub(NMulDiv(revGross, NSub(Fin(MILLI), in.poolFee), MILLI), powerUSD)
  IN [t |-> t, date |-> date, label |-> fmtMMYY(date), P |-> P, D |-> D, F |-> F,
      R |-> R, hpProtocol |-> hpProtocol, prem |-> prem, hp |-> hp, rev |-> rev]

\* the body of the loop of ProtocolEquilibriumPanel
Part2ProtocolAccumulate(c, row, in) ==
  LET taxCredit == NMul(in.taxPct, NMul(in.qty, in.unitCost))
      salvage == NMul(NMul(in.salvagePct, in.qty), in.unitCost)
      c1 == IF Part2InTaxMonth(row.date) THEN NAdd(c, taxCredit) ELSE c
      c2 == NAdd(c1, row.rev)
  IN IF row.t = MONTHS THEN NAdd(c2, salvage) ELSE c2

(***************************************************************************)
(* State                                                                   *)
(***************************************************************************)
VARIABLES
  clock,       \* the date new Date() returns
  startDate,   \* panel -> its memoised start date; the domain is the mounted panels
  inputs,      \* panel -> the record of its useState values
  series,      \* panel -> its memoised series
  changes,     \* the number of input changes made so far
  pc,          \* "idle", or the position in the running series callback
  cur,         \* the panel whose series callback is running
  arr,         \* the array of rows of the running callback
  idx,         \* the number of rows the loop has processed
  cumulative,  \* the accumulator of the loop
  fired,       \* history: the rows at which the loop took each conditional addition
  call,        \* the helper application a sanity test makes: its name and arguments
  result,      \* the value that application returned, <<>> before it returns
  tabs         \* a Tabs element: its props, its useState value and the clicks made

vars ==
  <<clock, startDate, inputs, series, changes, pc, cur, arr, idx, cumulative, fired,
    call, result, tabs>>

Mounted == DOMAIN startDate

NoFired == [tax |-> {}, salvage |-> {}, deposit |-> {}]

\* the values of the callback's variables while no callback runs
Idle ==
  /\ pc' = "idle"
  /\ cur' = "none"
  /\ arr' = <<>>
  /\ idx' = 0
  /\ cumulative' = Fin(0)
  /\ fired' = NoFired

InitVars ==
  /\ startDate = <<>>
  /\ inputs = <<>>
  /\ series = <<>>
  /\ changes = 0
  /\ pc = "idle"
  /\ cur = "none"
  /\ arr = <<>>
  /\ idx = 0
  /\ cumulative = Fin(0)
  /\ fired = NoFired

\* no helper application is under test
NoCall == [fn |-> "none", args |-> <<>>]

NoResult == <<>>

\* no Tabs element is rendered (App renders the three panels side by side)
NoTabs == <<>>

Init ==
  clock \in SessionDates /\ InitVars /\ call = NoCall /\ result = NoResult /\ tabs = NoTabs

InitCalendar ==
  clock \in StartDates /\ InitVars /\ call = NoCall /\ result = NoResult /\ tabs = NoTabs

(***************************************************************************)
(* The series callbacks                                                    *)
(***************************************************************************)
\* EnergyAdjustedPanel, useMemo callback up to the loop: the rows are built and
\* cumulative is set to -initialCost
EnergyBegin(in, start) ==
  /\ pc' = "scan"
  /\ cur' = "energy"
  /\ arr' = EnergyRows(in, start)
  /\ idx' = 0
  /\ cumulative' = NNeg(InitialCost(in))
  /\ fired' = NoFired

\* ProtocolEquilibriumPanel, useMemo callback up to the loop
ProtocolBegin(in, start) ==
  /\ pc' = "scan"
  /\ cur' = "protocol"
  /\ arr' = ProtocolRows(in, start)
  /\ idx' = 0
  /\ cumulative' = NNeg(InitialCost(in))
  /\ fired' = NoFired

\* variant: the total is written to the row and to every row before it
RecordProfitUpTo(rows, i, c) ==
  [j \in 1..Len(rows) |-> IF j <= i THEN [profit |-> c] @@ rows[j] ELSE rows[j]]

\* (row as any).profit = cumulative
RecordProfit(rows, i, c) == [rows EXCEPT ![i] = [profit |-> c] @@ rows[i]]

\* one iteration of for (const row of arr) in EnergyAdjustedPanel
EnergyScanRow ==
  /\ pc = "scan"
  /\ cur = "energy"
  /\ idx < Len(arr)
  /\ LET row == arr[idx + 1]
         in == inputs["energy"]
         c == EnergyAccumulate(cumulative, row, in)
     IN /\ cumulative' = c
        /\ arr' = RecordProfit(arr, idx + 1, c)
        /\ fired' =
             [tax |-> fired.tax \cup (IF InTaxMonth(row.date) THEN {row.t} ELSE {}),
              salvage |->
                fired.salvage \cup (IF EnergyIsTerminal(row) THEN {row.t} ELSE {}),
              deposit |->
                fired.deposit \cup (IF EnergyIsTerminal(row) THEN {row.t} ELSE {})]
  /\ idx' = idx + 1
  /\ pc' = IF idx + 1 = Len(arr) THEN "return" ELSE "scan"
  /\ UNCHANGED <<tabs, call, result, clock, startDate, inputs, series, changes, cur>>

\* one iteration of for (const row of arr) in ProtocolEquilibriumPanel
ProtocolScanRow ==
  /\ pc = "scan"
  /\ cur = "protocol"
  /\ idx < Len(arr)
  /\ LET row == arr[idx + 1]
         in == inputs["protocol"]
         c == ProtocolAccumulate(cumulative, row, in)
     IN /\ cumulative' = c
        /\ arr' = RecordProfit(arr, idx + 1, c)
        /\ fired' =
             [tax |-> fired.tax \cup (IF InTaxMonth(row.date) THEN {row.t} ELSE {}),
              salvage |->
                fired.salvage \cup (IF ProtocolIsTerminal(row) THEN {row.t} ELSE {}),
              deposit |-> fired.deposit]
  /\ idx' = idx + 1
  /\ pc' = IF idx + 1 = Len(arr) THEN "return" ELSE "scan"
  /\ UNCHANGED <<tabs, call, result, clock, startDate, inputs, series, changes, cur>>

\* return arr: the array becomes the memoised series of the panel
Return ==
  /\ pc = "return"
  /\ series' = [p \in DOMAIN series \cup {cur} |->
                  IF p = cur THEN arr ELSE series[p]]
  /\ Idle
  /\ UNCHANGED <<tabs, call, result, clock, startDate, inputs, changes>>

(***************************************************************************)
(* The first render of App: the three panels in order                      *)
(***************************************************************************)
MountEnergy ==
  /\ pc = "idle"
  /\ Mounted = {}
  /\ startDate' = ("energy" :> clock)
  /\ inputs' = ("energy" :> EnergyDefaults)
  /\ EnergyBegin(EnergyDefaults, clock)
  /\ UNCHANGED <<tabs, call, result, clock, series, changes>>

MountProtocol ==
  /\ pc = "idle"
  /\ Mounted = {"energy"}
  /\ startDate' = startDate @@ ("protocol" :> clock)
  /\ inputs' = inputs @@ ("protocol" :> ProtocolDefaults)
  /\ ProtocolBegin(ProtocolDefaults, clock)
  /\ UNCHANGED <<tabs, call, result, clock, series, changes>>

\* FormulasCharts has no inputs and no loop: its series is the mapped array
MountFormulas ==
  /\ pc = "idle"
  /\ Mounted = {"energy", "protocol"}
  /\ startDate' = startDate @@ ("formulas" :> clock)
  /\ series' = series @@ ("formulas" :> FormulasRows(clock))
  /\ UNCHANGED <<tabs, call, result, clock, inputs, changes, pc, cur, arr, idx, cumulative,
                 fired>>

(***************************************************************************)
(* Input changes.  A setter called with the current value re-renders       *)
(* nothing; a changed value re-renders the panel, and useMemo runs the     *)
(* series callback again when the changed state is in its dependency list. *)
(***************************************************************************)
Ready == pc = "idle" /\ Mounted = Panels /\ changes < MaxChanges

EnergySet(f, v) ==
  /\ Ready
  /\ v # inputs["energy"][f]
  /\ inputs' = [inputs EXCEPT !["energy"][f] = v]
  /\ changes' = changes + 1
  /\ IF f \in EnergyDeps
       THEN EnergyBegin(inputs'["energy"], startDate["energy"])
       ELSE UNCHANGED <<pc, cur, arr, idx, cumulative, fired>>
  /\ UNCHANGED <<tabs, call, result, clock, startDate, series>>

\* variant: an input of the protocol panel that the energy panel also has is
\* one state shared by the two panels
ProtocolSetShared(f, v) ==
  /\ Ready
  /\ v # inputs["protocol"][f]
  /\ inputs' = IF f \in DOMAIN inputs["energy"]
                THEN [inputs EXCEPT !["protocol"][f] = v, !["energy"][f] = v]
                ELSE [inputs EXCEPT !["protocol"][f] = v]
  /\ changes' = changes + 1
  /\ IF f \in ProtocolDeps
       THEN ProtocolBegin(inputs'["protocol"], startDate["protocol"])
       ELSE UNCHANGED <<pc, cur, arr, idx, cumulative, fired>>
  /\ UNCHANGED <<tabs, call, result, clock, startDate, series>>

ProtocolSet(f, v) ==
  /\ Ready
  /\ v # inputs["protocol"][f]
  /\ inputs' = [inputs EXCEPT !["protocol"][f] = v]
  /\ changes' = changes + 1
  /\ IF f \in ProtocolDeps
       THEN ProtocolBegin(inputs'["protocol"], startDate["protocol"])
       ELSE UNCHANGED <<pc, cur, arr, idx, cumulative, fired>>
  /\ UNCHANGED <<tabs, call, result, clock, startDate, series>>

\* NumberField: onChange(parseFloat(e.target.value))
EnergyNumberField == \E f \in EnergyNumberFields : \E text \in Texts(f) :
  EnergySet(f, parseFloat(text))

\* PercentNumberField, PercentSliderPct:
\* onChange((parseFloat(e.target.value) || 0) / 100)
EnergyPercentField == \E f \in PercentFields : \E text \in Texts(f) :
  EnergySet(f, OrZero(parseFloat(text)))

\* Switch: onCheckedChange(e.target.checked)
EnergySwitch == \E checked \in BOOLEAN : EnergySet("useSchedule", checked)

ProtocolNumberField == \E f \in ProtocolNumberFields : \E text \in Texts(f) :
  ProtocolSet(f, parseFloat(text))

ProtocolPercentField == \E f \in PercentFields : \E text \in Texts(f) :
  ProtocolSet(f, OrZero(parseFloat(text)))

(***************************************************************************)
(* Specifications                                                          *)
(***************************************************************************)
Next ==
  \/ MountEnergy
  \/ MountProtocol
  \/ MountFormulas
  \/ EnergyScanRow
  \/ ProtocolScanRow
  \/ Return
  \/ EnergyNumberField
  \/ EnergyPercentField
  \/ EnergySwitch
  \/ ProtocolNumberField
  \/ ProtocolPercentField

\* sessions: the application opened on one of SessionDates, then input changes
Spec == Init /\ [][Next]_vars

NextCalendar ==
  \/ MountEnergy
  \/ MountProtocol
  \/ MountFormulas
  \/ EnergyScanRow
  \/ ProtocolScanRow
  \/ Return

\* calendar runs: the application opened on any of StartDates, inputs untouched
SpecCalendar == InitCalendar /\ [][NextCalendar]_vars

(***************************************************************************)
(* The helpers applied on their own, as runSanityTests does at module      *)
(* load, with the arguments drawn from bounded sets.                       *)
(***************************************************************************)
\* efficiencies in milli-J/TH (multiples of 125, so that 0.024 * e is a whole
\* number of micro-units) and energy prices in milli-dollars/kWh
EfficiencyArgs == {0, 12000, 16000, 17000, 20125, 28000}

EnergyPriceArgs == {0, 50, 60, 100}

\* <<R, F, P, D>> of every month of the trends under either subsidy, of
\* runSanityTests, and with nothing to earn
HashpriceArgs ==
  {<<Fin(R), NScale(FeesTrend[t], BLOCKS_PER_DAY), PriceTrend[t], DifficultyTrend[t]>> :
     R \in {SUBSIDY_BEFORE, SUBSIDY_AFTER}, t \in 0..MONTHS}
  \cup {<<Fin(SUBSIDY_BEFORE), NScale(Fin(FEES0_PARAM), BLOCKS_PER_DAY), Fin(60000),
          Fin(10000)>>,
        <<Fin(0), Fin(0), Fin(P0_PARAM), Fin(D0_PARAM)>>}

\* <<t, x0, g, d>>: the trends of the panels, runSanityTests' 100 at 0.05 / 0.1,
\* and a rate pair with d = 0
GompertzArgs ==
  {<<t, Fin(x0), Fin(r[1]), Fin(r[2])>> :
     t \in {0, 1, 12, MONTHS},
     x0 \in {-100, 0, 100, P0_PARAM, D0_PARAM, FEES0_PARAM},
     r \in {<<GP, DP>>, <<GD, DD>>, <<GF, DF>>, <<50, 100>>, <<GP, 0>>}}

\* the efficiency pairs <<e0, eEnd>>: paths that fall, rise or stay
EfficiencyPairs ==
  {<<E0_PARAM * MILLI, EEND_PARAM * MILLI>>, <<17000, 12000>>, <<20000, 10000>>,
   <<16000, 28000>>, <<16000, 16000>>}

\* <<t, e0, eEnd, k>>: every month at the rate of the panels and at twice that
\* rate, and the first months at a rate of 750 a month, where Math.exp(-k * t)
\* underflows
EfficiencyPathArgs ==
  {<<t, Fin(p[1]), Fin(p[2]), Fin(k)>> :
     t \in 0..MONTHS, p \in EfficiencyPairs, k \in {KE_PARAM, 2 * KE_PARAM}}
  \cup {<<t, Fin(p[1]), Fin(p[2]), Fin(750 * MILLI)>> :
          t \in 0..2, p \in EfficiencyPairs}

\* <<t, pf0, k>>: every month at the two rates of the panels, and the first
\* months at a rate of 750 a month, where Math.exp(-k * t) underflows
PremiumPathArgs ==
  {<<t, Fin(pf0), Fin(k)>> :
     t \in 0..MONTHS, pf0 \in {-100, 0, 1, PF0_PARAM, 1500},
     k \in {KP_ENERGY_FIXED, KP_MARKET_FIXED}}
  \cup {<<t, Fin(pf0), Fin(750 * MILLI)>> : t \in 0..2, pf0 \in {1, PF0_PARAM, 1500}}

HelperCalls ==
  {[fn |-> "energyFloorUSDPerTHDay", args |-> <<Fin(e), Fin(ce)>>] :
     e \in EfficiencyArgs, ce \in EnergyPriceArgs}
  \cup {[fn |-> "EHP_usd_per_kWh", args |-> <<Fin(e), Fin(ce)>>] :
          e \in EfficiencyArgs, ce \in EnergyPriceArgs}
  \cup {[fn |-> "hashpriceUSD", args |-> a] : a \in HashpriceArgs}
  \cup {[fn |-> "gompertz", args |-> a] : a \in GompertzArgs}
  \cup {[fn |-> "efficiencyPath", args |-> a] : a \in EfficiencyPathArgs}
  \cup {[fn |-> "premiumPath", args |-> a] : a \in PremiumPathArgs}

InitHelpers ==
  /\ clock \in SessionDates
  /\ InitVars
  /\ call \in HelperCalls
  /\ result = NoResult
  /\ tabs = NoTabs

\* the application returns
Returns(fn, value) ==
  /\ call.fn = fn
  /\ result = NoResult
  /\ result' = value
  /\ UNCHANGED <<tabs, call, clock, startDate, inputs, series, changes, pc, cur, arr, idx,
                 cumulative, fired>>

\* const ef = energyFloorUSDPerTHDay(e, ce)
CallEnergyFloor ==
  Returns("energyFloorUSDPerTHDay",
          energyFloorUSDPerTHDay(call.args[1], call.args[2]))

\* const hpfloor = energyFloorUSDPerTHDay(e, ce);
\* const ehp = EHP_usd_per_kWh(hpfloor, e)
CallEHPAtFloor ==
  Returns("EHP_usd_per_kWh",
          EHP_usd_per_kWh(energyFloorUSDPerTHDay(call.args[1], call.args[2]),
                          call.args[1]))

\* const hp = hashpriceUSD(R, F, P, D)
CallHashprice ==
  Returns("hashpriceUSD",
          hashpriceUSD(call.args[1], call.args[2], call.args[3], call.args[4]))

\* gompertz(t, x0, g, d)
CallGompertz ==
  Returns("gompertz", gompertz(call.args[1], call.args[2], call.args[3], call.args[4]))

\* efficiencyPath(t, e0, eEnd, k)
CallEfficiencyPath ==
  Returns("efficiencyPath",
          efficiencyPath(call.args[1], call.args[2], call.args[3], call.args[4]))

\* premiumPath(t, pf0, k)
CallPremiumPath ==
  Returns("premiumPath", premiumPath(call.args[1], call.args[2], call.args[3]))

NextHelpers ==
  \/ CallEnergyFloor
  \/ CallEHPAtFloor
  \/ CallHashprice
  \/ CallGompertz
  \/ CallEfficiencyPath
  \/ CallPremiumPath

\* one helper application per behaviour
SpecHelpers == InitHelpers /\ [][NextHelpers]_vars

(***************************************************************************)
(* The Tabs component (components/ui/tabs.tsx), rendered with one          *)
(* TabsTrigger and one TabsContent for each of TabValues.  tabs holds the  *)
(* props defaultValue and value (Undefined when the prop is not given),    *)
(* whether onValueChange is given, the useState value internal, and as     *)
(* history the values clicked and the arguments onValueChange was called   *)
(* with.                                                                   *)
(***************************************************************************)
MaxClicks == 3

\* the value props of the triggers and contents of HashpriceGameDashboards
TabValues == {"energy", "protocol", "formulas"}

\* a prop that is not given
Undefined == "undefined"

\* React.useState(defaultValue ?? "")
TabsInitialInternal(defaultValue) ==
  IF defaultValue = Undefined THEN "" ELSE defaultValue

\* const current = value !== undefined ? value : internal
TabsCurrent == IF tabs.value # Undefined THEN tabs.value ELSE tabs.internal

\* variant: setInternal runs only when onValueChange is not given
TabsSetValueEitherOr(t, v) ==
  [t EXCEPT !.calls = IF t.onValueChange THEN Append(@, v) ELSE @,
            !.internal = IF ~t.onValueChange /\ t.value = Undefined THEN v ELSE @]

\* setValue: if (onValueChange) onValueChange(v);
\*           if (value === undefined) setInternal(v)
TabsSetValue(t, v) ==
  [t EXCEPT !.calls = IF t.onValueChange THEN Append(@, v) ELSE @,
            !.internal = IF t.value = Undefined THEN v ELSE @]

\* TabsContent: if (ctx.value !== value) return null
TabsContentRendered(v) == TabsCurrent = v

\* the values of the TabsContent elements that render their children
TabsRendered == {v \in TabValues : TabsContentRendered(v)}

InitTabs ==
  /\ clock \in SessionDates
  /\ InitVars
  /\ call = NoCall
  /\ result = NoResult
  /\ \E defaultValue \in TabValues \cup {Undefined} :
       \E value \in TabValues \cup {Undefined} :
         \E onValueChange \in BOOLEAN :
           tabs = [defaultValue |-> defaultValue, value |-> value,
                   onValueChange |-> onValueChange,
                   internal |-> TabsInitialInternal(defaultValue),
                   clicked |-> <<>>, calls |-> <<>>]

\* TabsTrigger: onClick={() => ctx.setValue(value)}
TabsTriggerClick == \E v \in TabValues :
  /\ Len(tabs.clicked) < MaxClicks
  /\ tabs' = [TabsSetValue(tabs, v) EXCEPT !.clicked = Append(@, v)]
  /\ UNCHANGED <<call, result, clock, startDate, inputs, series, changes, pc, cur, arr,
                 idx, cumulative, fired>>

\* the parent of a controlled Tabs renders it again with another value prop
TabsParentRender == \E v \in TabValues :
  /\ tabs.value # Undefined
  /\ v # tabs.value
  /\ tabs' = [tabs EXCEPT !.value = v]
  /\ UNCHANGED <<call, result, clock, startDate, inputs, series, changes, pc, cur, arr,
                 idx, cumulative, fired>>

NextTabs ==
  \/ TabsTriggerClick
  \/ TabsParentRender

SpecTabs == InitTabs /\ [][NextTabs]_vars

(***************************************************************************)
(* Properties.  While a series callback runs (pc is "scan" or "return"),    *)
(* arr[idx] is the row the loop processed last and inputs[cur] the inputs   *)
(* the callback closed over.                                               *)
(***************************************************************************)
\* C1: for every start date the tax credit is added at exactly one row of the
\* run, the row dated in April 2026
C1_TaxCreditAtExactlyOneRow ==
  pc = "return" =>
    /\ Cardinality(fired.tax) = 1
    /\ \A t \in fired.tax : InTaxMonth(arr[t + 1].date)

\* C2: in both panels salvage is added exactly once per run, at the row with
\* t = MONTHS and at no earlier row: until the last row the total moves by the
\* row's net and the tax credit alone, and at the last row of the protocol panel
\* by salvagePct * qty * unitCost on top of them
C2_SalvageOnceAtFinalRow ==
  pc \in {"scan", "return"} =>
    /\ fired.salvage = IF idx = MONTHS + 1 THEN {MONTHS} ELSE {}
    /\ (idx >= 1 /\ cur = "protocol" /\ IsFinite(arr[idx].profit)) =>
         LET in == inputs[cur]
             row == arr[idx]
             prev == IF idx = 1 THEN NNeg(InitialCost(in)) ELSE arr[idx - 1].profit
             tax == IF InTaxMonth(row.date) THEN TaxCredit(in).v ELSE 0
         IN row.profit.v - prev.v - row.rev.v - tax =
              IF row.t = MONTHS
                THEN (in.salvagePct.v * in.qty.v) * in.unitCost.v
                ELSE 0

C2_Witness ==
  /\ pc = "return"
  /\ cur = "protocol"
  /\ fired.salvage = {MONTHS}
  /\ IsFinite(arr[MONTHS + 1].profit)
  /\ Salvage(inputs[cur]).v > 0

\* C3: the cumulative profit is a running sum in index order: profit[t] is
\* profit[t-1] (minus the up-front cost for t = 0) plus the tax credit if the row
\* is dated in the target month, plus the row's net, plus the terminal additions
\* if t = MONTHS
C3_ProfitIsRunningSum ==
  (pc \in {"scan", "return"} /\ idx >= 1) =>
    LET in == inputs[cur]
        row == arr[idx]
        prev == IF idx = 1 THEN NNeg(InitialCost(in)) ELSE arr[idx - 1].profit
        net == IF cur = "energy" THEN row.net ELSE row.rev
        tax == IF InTaxMonth(row.date) THEN TaxCredit(in) ELSE Fin(0)
        terminal ==
          IF row.t # MONTHS THEN Fin(0)
          ELSE IF cur = "energy" THEN NAdd(Salvage(in), SecurityDeposit(in))
          ELSE Salvage(in)
    IN /\ row.t = idx - 1
       /\ row.profit = NAdd(NAdd(NAdd(prev, tax), net), terminal)
       /\ IsFinite(row.profit) => row.profit.v - prev.v = net.v + tax.v + terminal.v
       /\ cumulative = row.profit

C3_Witness ==
  /\ pc = "scan"
  /\ cur = "energy"
  /\ idx >= 2
  /\ InTaxMonth(arr[idx].date)
  /\ IsFinite(arr[idx].profit)
  /\ arr[idx].net.v # 0
  /\ TaxCredit(inputs[cur]).v > 0
  /\ arr[idx].profit.v - arr[idx - 1].profit.v =
       arr[idx].net.v + TaxCredit(inputs[cur]).v

\* C4: before any row is scanned the total is minus
\* (qty*unitCost + minerKW*hostingRate*qty*24*31*2 + qty*setupPerMiner), in
\* cents, whatever the start date, the uptime and the lengths of the months
C4_InitialCumulative ==
  (pc = "scan" /\ idx = 0) =>
    LET in == inputs[cur]
    IN IF \A f \in {"qty", "unitCost", "minerKW", "hostingRate", "setupPerMiner"} :
            IsFinite(in[f])
         THEN cumulative =
                Fin(-((in.qty.v * in.unitCost.v) * 100
                      + (in.minerKW.v * in.hostingRate.v * in.qty.v * 24 * 31 * 2)
                          \div 100
                      + (in.qty.v * in.setupPerMiner.v) * 100))
         ELSE ~IsFinite(cumulative)

C4_Witness ==
  /\ pc = "scan"
  /\ idx = 0
  /\ cur = "energy"
  /\ inputs[cur].qty = Fin(12)
  /\ cumulative = Fin(-(9600000 + 312480 + 30000))

\* C5: the security deposit is added back only by the energy panel and only at
\* the row with t = MONTHS; the protocol panel deducts the same deposit up front
\* and adds it back at no row
C5_DepositReturnedOnlyByEnergy ==
  pc \in {"scan", "return"} =>
    LET in == inputs[cur]
        deposit ==
          (in.minerKW.v * in.hostingRate.v * in.qty.v * 24 * 31 * 2) \div 100
    IN /\ fired.deposit =
            IF cur = "energy" /\ idx = MONTHS + 1 THEN {MONTHS} ELSE {}
       /\ (idx = 0 /\ IsFinite(cumulative)) =>
            cumulative.v =
              -((in.qty.v * in.unitCost.v) * 100 + deposit
                + (in.qty.v * in.setupPerMiner.v) * 100)
       /\ (idx >= 1 /\ IsFinite(arr[idx].profit)) =>
            LET row == arr[idx]
                prev == IF idx = 1 THEN NNeg(InitialCost(in))
                        ELSE arr[idx - 1].profit
                net == IF cur = "energy" THEN row.net ELSE row.rev
                tax == IF InTaxMonth(row.date) THEN TaxCredit(in).v ELSE 0
                salvage == IF row.t = MONTHS THEN Salvage(in).v ELSE 0
            IN row.profit.v - prev.v - net.v - tax - salvage =
                 IF cur = "energy" /\ row.t = MONTHS THEN deposit ELSE 0

C5_Witness ==
  /\ pc = "return"
  /\ cur = "energy"
  /\ fired.deposit = {MONTHS}
  /\ IsFinite(arr[MONTHS + 1].profit)
  /\ SecurityDeposit(inputs[cur]).v > 0

\* C6: the days-in-month of every row is the calendar length of the month of
\* the row's date (28, 29 in a leap year, 30 or 31), and the row's revenue and
\* power cost are computed with it
C6_DaysInMonthIsCalendarLength ==
  (pc \in {"scan", "return"} /\ idx >= 1) =>
    LET in == inputs[cur]
        row == arr[idx]
        y == getFullYear(row.date)
        m == getMonth(row.date)
        leap == y % 4 = 0 /\ (y % 100 # 0 \/ y % 400 = 0)
        len == IF m = 1 THEN (IF leap THEN 29 ELSE 28)
               ELSE IF m \in {3, 5, 8, 10} THEN 30
               ELSE 31
        kwh == NMul(NMul(NMul(NMul(in.minerKW, in.hostingRate), in.qty), Fin(24)),
                    Fin(len))
        base == monthlyRevenue(row.hp, NMul(in.thps, in.qty), Fin(len))
    IN /\ daysInMonth(row.date) = len
       /\ cur = "energy" =>
            /\ row.gross = NMulDiv(base, in.uptime, MILLI)
            /\ row.power = NScale(NMulDiv(kwh, in.uptime, MILLI), 100)
       /\ cur = "protocol" =>
            row.rev = NSub(NMulDiv(base, NSub(Fin(MILLI), in.poolFee), MILLI),
                           NScale(kwh, 100))

C6_Witness ==
  /\ pc = "scan"
  /\ cur = "energy"
  /\ idx >= 1
  /\ getFullYear(arr[idx].date) = 2028
  /\ getMonth(arr[idx].date) = 1
  /\ daysInMonth(arr[idx].date) = 29
  /\ IsFinite(arr[idx].power)

\* C7: every effective hashprice derived from the energy floor uses the energy
\* decay rate KP_ENERGY_FIXED and every one derived from the protocol floor the
\* market rate KP_MARKET_FIXED, in the rows of Formulas & Charts too
C7_DecayRateMatchesFloor ==
  "formulas" \in DOMAIN series =>
    \A i \in 1..Len(series["formulas"]) :
      LET row == series["formulas"][i]
          energyPremium == premiumPath(row.t, Fin(PF0_PARAM), Fin(KP_ENERGY_FIXED))
          marketPremium == premiumPath(row.t, Fin(PF0_PARAM), Fin(KP_MARKET_FIXED))
      IN /\ row.hpEnergyEff =
              NMulDiv(row.hpEnergy, NAdd(Fin(MICRO), energyPremium), MICRO)
         /\ row.hpProtocolEff =
              NMulDiv(row.hpProtocol, NAdd(Fin(MICRO), marketPremium), MICRO)

\* C8 as stated: in every model the gross revenue of a row is
\* hp * (thps * qty) * daysInMonth * uptime, in the protocol panel too (whose
\* revenue is gross * (1 - poolFee) - power); uptime is the application's one
\* uptime input, that of the energy panel
C8_GrossIncludesUptimeInEveryModel ==
  (pc \in {"scan", "return"} /\ idx >= 1) =>
    LET in == inputs[cur]
        row == arr[idx]
        dim == daysInMonth(row.date)
        gross == NMulDiv(monthlyRevenue(row.hp, NMul(in.thps, in.qty), Fin(dim)),
                         inputs["energy"].uptime, MILLI)
    IN /\ cur = "energy" => row.gross = gross
       /\ cur = "protocol" =>
            row.rev = NSub(NMulDiv(gross, NSub(Fin(MILLI), in.poolFee), MILLI),
                           ProtocolPowerUSD(in, dim))

\* C8 amended: the gross revenue of a row is hp * (thps * qty) * daysInMonth *
\* uptime in the energy panel, and hp * (thps * qty) * daysInMonth with no
\* uptime factor in the protocol panel, which has no uptime input
C8_GrossRevenueByModel ==
  (pc \in {"scan", "return"} /\ idx >= 1) =>
    LET in == inputs[cur]
        row == arr[idx]
        dim == daysInMonth(row.date)
        base == monthlyRevenue(row.hp, NMul(in.thps, in.qty), Fin(dim))
    IN /\ cur = "energy" => row.gross = NMulDiv(base, in.uptime, MILLI)
       /\ cur = "protocol" =>
            row.rev = NSub(NMulDiv(base, NSub(Fin(MILLI), in.poolFee), MILLI),
                           ProtocolPowerUSD(in, dim))

C8_Witness ==
  /\ pc = "scan"
  /\ cur = "protocol"
  /\ idx >= 1
  /\ IsFinite(arr[idx].rev)
  /\ IsFinite(inputs["energy"].uptime)
  /\ inputs["energy"].uptime.v < MILLI
  /\ LET in == inputs[cur]
         row == arr[idx]
         dim == daysInMonth(row.date)
         base == monthlyRevenue(row.hp, NMul(in.thps, in.qty), Fin(dim))
     IN /\ base.v > 0
        /\ row.rev.v + ProtocolPowerUSD(in, dim).v =
             MulDiv(base.v, MILLI - in.poolFee.v, MILLI)

\* C9: the power cost of a row is minerKW * hostingRate * qty * 24 * daysInMonth
\* * uptime in the energy panel and minerKW * hostingRate * qty * 24 *
\* daysInMonth, with no uptime factor, in the protocol panel
C9_PowerCostByModel ==
  (pc \in {"scan", "return"} /\ idx >= 1) =>
    LET in == inputs[cur]
        row == arr[idx]
        dim == daysInMonth(row.date)
        kwh == NMul(NMul(NMul(NMul(in.minerKW, in.hostingRate), in.qty), Fin(24)),
                    Fin(dim))
    IN /\ cur = "energy" =>
            /\ row.power = NScale(NMulDiv(kwh, in.uptime, MILLI), 100)
            /\ row.net = NSub(NMulDiv(row.gross, NSub(Fin(MILLI), in.poolFee), MILLI),
                              row.power)
       /\ cur = "protocol" =>
            row.rev = NSub(NMulDiv(ProtocolRevGross(in, row.hp, dim),
                                   NSub(Fin(MILLI), in.poolFee), MILLI),
                           NScale(kwh, 100))

C9_Witness ==
  /\ pc = "scan"
  /\ cur = "energy"
  /\ idx >= 1
  /\ inputs[cur].uptime = Fin(950)
  /\ IsFinite(arr[idx].power)
  /\ arr[idx].power.v > 0
  /\ arr[idx].power.v < ProtocolPowerUSD(inputs[cur], daysInMonth(arr[idx].date)).v

\* C10: when an input of a panel is non-finite, or its hashrate is zero or
\* negative, the panel's run returns no rows, and no returned row holds a NaN or
\* an Infinity
C10_InvalidInputProducesNoRows ==
  \A p \in (DOMAIN series \cap DOMAIN inputs) \ {cur} :
    LET in == inputs[p]
        invalid ==
          \/ \E f \in DOMAIN in \ {"useSchedule"} : ~IsFinite(in[f])
          \/ in.thps.v <= 0
    IN /\ invalid => series[p] = <<>>
       /\ \A i \in 1..Len(series[p]) :
            LET row == series[p][i]
            IN \A f \in DOMAIN row \ {"t", "date", "label"} : IsFinite(row[f])

\* C11: a fraction-valued input (premium, uptime, pool fee, tax fraction,
\* salvage fraction) outside [0, 1] never aborts a run: all MONTHS + 1 rows are
\* produced, and each is computed with the out-of-range value as given
C11_OutOfRangeNeverAborts ==
  LET unit(f) == IF f \in {"taxPct", "salvagePct"} THEN 100 ELSE MILLI
      outOfRange(in) ==
        \E f \in DOMAIN in \cap
                 {"premium0", "pf0", "uptime", "poolFee", "taxPct", "salvagePct"} :
          IsFinite(in[f]) /\ (in[f].v < 0 \/ in[f].v > unit(f))
      allFinite(in) == \A f \in DOMAIN in \ {"useSchedule"} : IsFinite(in[f])
  IN /\ \A p \in (DOMAIN series \cap DOMAIN inputs) \ {cur} :
          outOfRange(inputs[p]) =>
            /\ Len(series[p]) = MONTHS + 1
            /\ allFinite(inputs[p]) => IsFinite(series[p][MONTHS + 1].profit)
     /\ (pc \in {"scan", "return"} /\ outOfRange(inputs[cur])) =>
          /\ Len(arr) = MONTHS + 1
          /\ (idx >= 1 /\ allFinite(inputs[cur])) =>
               LET in == inputs[cur]
                   row == arr[idx]
                   dim == daysInMonth(row.date)
                   base == monthlyRevenue(row.hp, NMul(in.thps, in.qty), Fin(dim))
                   prev == IF idx = 1 THEN NNeg(InitialCost(in))
                           ELSE arr[idx - 1].profit
                   net == IF cur = "energy" THEN row.net ELSE row.rev
                   tax == IF InTaxMonth(row.date)
                            THEN in.taxPct.v * (in.qty.v * in.unitCost.v)
                            ELSE 0
                   terminal ==
                     IF row.t # MONTHS THEN 0
                     ELSE (in.salvagePct.v * in.qty.v) * in.unitCost.v
                          + (IF cur = "energy" THEN SecurityDeposit(in).v ELSE 0)
               IN /\ IsFinite(row.profit)
                  /\ row.profit.v = prev.v + tax + net.v + terminal
                  /\ cur = "energy" =>
                       /\ row.prem.v =
                            MulDiv(in.premium0.v,
                                   Exp(-(KP_ENERGY_FIXED * row.t * MILLI)), MILLI)
                       /\ row.gross.v = MulDiv(base.v, in.uptime.v, MILLI)
                       /\ row.net.v =
                            MulDiv(row.gross.v, MILLI - in.poolFee.v, MILLI)
                            - row.power.v
                  /\ cur = "protocol" =>
                       /\ row.prem.v =
                            MulDiv(in.pf0.v,
                                   Exp(-(KP_MARKET_FIXED * row.t * MILLI)), MILLI)
                       /\ row.rev.v =
                            MulDiv(base.v, MILLI - in.poolFee.v, MILLI)
                            - ProtocolPowerUSD(in, dim).v

C11_Witness ==
  /\ pc = "return"
  /\ cur = "energy"
  /\ inputs[cur].uptime = Fin(1200)
  /\ Len(arr) = MONTHS + 1
  /\ IsFinite(arr[MONTHS + 1].profit)
  /\ arr[MONTHS + 1].gross.v > 0

C13_RowsIndependentOfClock ==
  pc = "idle" =>
    \A p \in DOMAIN series \cap DOMAIN inputs :
      \A now \in SessionDates :
        \A i \in 1..(MONTHS + 1) :
          LET row == series[p][i]
              other == IF p = "energy" THEN EnergyRow(inputs[p], now, i - 1)
                       ELSE ProtocolRow(inputs[p], now, i - 1)
          IN \A f \in DOMAIN other : row[f] = other[f]

\* C14: every run of every panel yields exactly 37 rows (MONTHS + 1), and the
\* month index t takes the values 0, 1, ..., 36 once each in increasing order:
\* the i-th row carries t = i - 1.  This holds of the array while the loop
\* scans it and of every series a panel holds.
C14_RowsIndexed(rows) ==
  /\ Len(rows) = 37
  /\ Len(rows) = MONTHS + 1
  /\ \A i \in 1..Len(rows) : rows[i].t = i - 1

C14_ThirtySevenRowsInOrder ==
  /\ \A p \in DOMAIN series : C14_RowsIndexed(series[p])
  /\ pc \in {"scan", "return"} => C14_RowsIndexed(arr)

C14_Witness ==
  /\ DOMAIN series = Panels
  /\ changes >= 1
  /\ pc = "return"
  /\ arr[1].t = 0
  /\ arr[Len(arr)].t = MONTHS
  /\ series["formulas"][MONTHS + 1].t = MONTHS

\* C15: the block reward of a row is 3.125 BTC when the row is dated before
\* 1 April 2028 and 1.575 BTC when it is dated on or after it, and no other
\* value occurs (rewards in micro-BTC; April is month 3 of getMonth, and the
\* label of a row is <<month number, two-digit year>>)
C15_DatedBeforeCutover(d) ==
  getFullYear(d) < 2028 \/ (getFullYear(d) = 2028 /\ getMonth(d) < 3)

C15_LabelBeforeCutover(label) ==
  label[2] < 28 \/ (label[2] = 28 /\ label[1] < 4)

C15_Reward(before) == IF before THEN Fin(3125000) ELSE Fin(1575000)

C15_BlockRewardStepsAtCutover ==
  /\ "protocol" \in DOMAIN series =>
       \A i \in 1..Len(series["protocol"]) :
         LET row == series["protocol"][i]
         IN /\ row.R = C15_Reward(C15_DatedBeforeCutover(row.date))
            /\ row.R \in {Fin(3125000), Fin(1575000)}
  /\ "formulas" \in DOMAIN series =>
       \A i \in 1..Len(series["formulas"]) :
         LET row == series["formulas"][i]
         IN row.R = C15_Reward(C15_LabelBeforeCutover(row.label))
  /\ (pc \in {"scan", "return"} /\ cur = "protocol") =>
       \A i \in 1..Len(arr) :
         arr[i].R = C15_Reward(C15_DatedBeforeCutover(arr[i].date))

C15_Witness ==
  /\ "protocol" \in DOMAIN series
  /\ \E i \in 2..(MONTHS + 1) :
       /\ series["protocol"][i].date = NewDate(2028, 3, 1)
       /\ series["protocol"][i].R = Fin(1575000)
       /\ series["protocol"][i - 1].date = NewDate(2028, 2, 1)
       /\ series["protocol"][i - 1].R = Fin(3125000)

\* C16: energyFloorUSDPerTHDay(e, ce) is 0.024 * e * ce; with 17 J/TH and
\* 0.05 $/kWh it is 0.0204 $/TH-day (e in milli-J/TH, ce in milli-dollars, the
\* result in micro-dollars: 24 * e * ce / 1000)
C16_EnergyFloorFormula ==
  (call.fn = "energyFloorUSDPerTHDay" /\ result # NoResult) =>
    LET e == call.args[1].v
        ce == call.args[2].v
    IN /\ result = Fin((24 * e * ce) \div 1000)
       /\ (e = 17000 /\ ce = 50) => result = Fin(20400)

C16_Witness ==
  /\ call = [fn |-> "energyFloorUSDPerTHDay", args |-> <<Fin(17000), Fin(50)>>]
  /\ result = Fin(20400)

\* C17: for e > 0 and ce > 0 the effective cost of power of the energy floor is
\* the energy price: EHP_usd_per_kWh(energyFloorUSDPerTHDay(e, ce), e) = ce
\* (ce in milli-dollars, the result in micro-dollars per kWh)
C17_EHPInvertsEnergyFloor ==
  (call.fn = "EHP_usd_per_kWh" /\ result # NoResult) =>
    LET e == call.args[1].v
        ce == call.args[2].v
    IN (e > 0 /\ ce > 0) => result = Fin(ce * 1000)

C17_Witness ==
  /\ call = [fn |-> "EHP_usd_per_kWh", args |-> <<Fin(17000), Fin(50)>>]
  /\ result = Fin(50000)

\* C18: for strictly positive R, F, P and D the hashprice K * (R + F) * P / D is
\* strictly positive; the arguments include those of every month of the
\* built-in trends under either block reward
C18_HashpricePositive ==
  (call.fn = "hashpriceUSD" /\ result # NoResult) =>
    ((\A j \in 1..4 : IsFinite(call.args[j]) /\ call.args[j].v > 0) =>
       (IsFinite(result) /\ result.v > 0))

C18_Witness ==
  /\ call.fn = "hashpriceUSD"
  /\ call.args = <<Fin(SUBSIDY_BEFORE), NScale(Fin(FEES0_PARAM), BLOCKS_PER_DAY),
                   Fin(60000), Fin(10000)>>
  /\ result # NoResult
  /\ IsFinite(result)
  /\ result.v > 0

\* C19: for every x0 and every rate pair (g, d) with d > 0,
\* gompertz(0, x0, g, d) is x0; hence month 0 of the trends carries the initial
\* price, the initial difficulty and the initial daily fee total
C19_GompertzStartsAtInitialValue ==
  /\ (call.fn = "gompertz" /\ result # NoResult) =>
       ((call.args[1] = 0 /\ IsFinite(call.args[4]) /\ call.args[4].v > 0) =>
          result = call.args[2])
  /\ PriceTrend[0] = Fin(P0_PARAM)
  /\ DifficultyTrend[0] = Fin(D0_PARAM)
  /\ FeesTrend[0] = Fin(FEES0_PARAM)

C19_Witness ==
  /\ call = [fn |-> "gompertz", args |-> <<0, Fin(P0_PARAM), Fin(GP), Fin(DP)>>]
  /\ result = Fin(P0_PARAM)

\* C20: efficiencyPath(0, e0, eEnd, k) is e0, and for every t > 0, k > 0 and
\* e0 # eEnd the value efficiencyPath(t, e0, eEnd, k) lies strictly between eEnd
\* and e0 and is strictly closer to eEnd than the value of month t - 1
C20_Between(x, lo, hi) == (lo < x /\ x < hi) \/ (hi < x /\ x < lo)

C20_PathProperty(t, e0, eEnd, k, value) ==
  /\ t = 0 => value = e0
  /\ (t > 0 /\ k.v > 0 /\ e0 # eEnd) =>
       /\ IsFinite(value)
       /\ C20_Between(value.v, eEnd.v, e0.v)
       /\ Abs(value.v - eEnd.v) < Abs(efficiencyPath(t - 1, e0, eEnd, k).v - eEnd.v)

C21_PathProperty(t, pf0, k, value) ==
  (pf0.v > 0 /\ k.v > 0) =>
    /\ IsFinite(value)
    /\ value.v > 0
    /\ t > 0 => value.v < premiumPath(t - 1, pf0, k).v

C22_Effective(floor, prem, additive, hp) ==
  (IsFinite(floor) /\ IsFinite(prem) /\ IsFinite(additive)) =>
    /\ hp = Fin(MulDiv(floor.v, MICRO + prem.v, MICRO) + additive.v)
    /\ (prem.v >= 0 /\ additive.v >= 0 /\ floor.v >= 0) => hp.v >= floor.v

C23_DatedInApril2026(rows) ==
  {i \in 1..Len(rows) : getFullYear(rows[i].date) = 2026 /\ getMonth(rows[i].date) = 3}

C23_TaxCreditAtMostOnce ==
  pc \in {"scan", "return"} =>
    /\ Cardinality(C23_DatedInApril2026(arr)) <= 1
    /\ Cardinality(fired.tax) <= 1
    /\ \A t \in fired.tax : t + 1 \in C23_DatedInApril2026(arr)

C23_Witness ==
  /\ pc = "return"
  /\ getDate(startDate[cur]) = 30
  /\ Cardinality(fired.tax) = 1
  /\ C23_DatedInApril2026(arr) = {t + 1 : t \in fired.tax}

\* C24: for every start date the calendar month of row t is t calendar months
\* after the calendar month of row 0, so that over t = 0..MONTHS no month is
\* skipped and none appears in two rows
C24_MonthIndex(d) == 12 * getFullYear(d) + getMonth(d)

C24_RowMonthIsStartMonthPlusT ==
  pc \in {"scan", "return"} =>
    \A i \in 1..Len(arr) :
      C24_MonthIndex(arr[i].date) = C24_MonthIndex(arr[1].date) + arr[i].t

\* C25: a step of the accumulation loop writes only the profit field of the row
\* it processes: every other row, with the profit recorded in it, and every
\* other field of the processed row are as they were
C25_ScanWritesOnlyProfit ==
  [][(pc = "scan" /\ idx' = idx + 1) =>
       /\ Len(arr') = Len(arr)
       /\ \A i \in 1..Len(arr) : i # idx + 1 => arr'[i] = arr[i]
       /\ DOMAIN arr'[idx + 1] = DOMAIN arr[idx + 1] \cup {"profit"}
       /\ \A f \in DOMAIN arr[idx + 1] : arr'[idx + 1][f] = arr[idx + 1][f]
       /\ arr'[idx + 1].profit = cumulative']_vars

C25_Witness ==
  /\ pc = "scan"
  /\ idx >= 2
  /\ "profit" \in DOMAIN arr[idx]
  /\ "profit" \notin DOMAIN arr[idx + 1]
  /\ arr[idx].profit = cumulative
  /\ arr[idx - 1].profit # arr[idx].profit

\* C26: in the energy panel the security deposit cancels out of the last total:
\* profit[MONTHS] = -(qty*unitCost + qty*setupPerMiner) + the sum of net over
\* all rows + salvage + the tax credit if a row is dated in April 2026; in the
\* protocol panel profit[MONTHS] is that sum less the deposit
\* minerKW*hostingRate*qty*24*31*2 (amounts in cents)
C26_BottomLine ==
  LET in == inputs[cur]
      monthly[i \in 0..(MONTHS + 1)] ==
        IF i = 0 THEN 0
        ELSE monthly[i - 1] + (IF cur = "energy" THEN arr[i].net.v ELSE arr[i].rev.v)
      purchase == (in.qty.v * in.unitCost.v) * 100 + (in.qty.v * in.setupPerMiner.v) * 100
      salvage == in.salvagePct.v * in.qty.v * in.unitCost.v
      taxCredit == IF C23_DatedInApril2026(arr) # {}
                   THEN in.taxPct.v * (in.qty.v * in.unitCost.v) ELSE 0
  IN -purchase + monthly[MONTHS + 1] + salvage + taxCredit

C26_Deposit ==
  LET in == inputs[cur]
  IN (in.minerKW.v * in.hostingRate.v * in.qty.v * 24 * 31 * 2) \div 100

C26_DepositCancelsInEnergyOnly ==
  (pc = "return" /\ IsFinite(arr[MONTHS + 1].profit)) =>
    arr[MONTHS + 1].profit.v =
      IF cur = "energy" THEN C26_BottomLine ELSE C26_BottomLine - C26_Deposit

C26_Witness ==
  /\ pc = "return"
  /\ cur = "energy"
  /\ IsFinite(arr[MONTHS + 1].profit)
  /\ C26_Deposit > 0
  /\ C23_DatedInApril2026(arr) # {}
  /\ arr[MONTHS + 1].profit.v = C26_BottomLine
  /\ arr[1].profit.v = arr[1].net.v
                       - ((inputs[cur].qty.v * inputs[cur].unitCost.v) * 100
                          + C26_Deposit
                          + (inputs[cur].qty.v * inputs[cur].setupPerMiner.v) * 100)

\* C27: in the energy panel, with the schedule switch off the efficiency of
\* every row is the starting efficiency and the floor of every row is
\* 0.024 * e0 * ce; with the switch on the efficiency of row t is
\* efficiencyPath(t, e0, eEnd, ke); and a step that toggles the switch changes
\* no other input
C27_RowFollowsSwitch ==
  (pc \in {"scan", "return"} /\ cur = "energy") =>
    \A i \in 1..Len(arr) :
      IF inputs[cur].useSchedule
        THEN arr[i].e = efficiencyPath(arr[i].t, Fin(E0_PARAM * MILLI),
                                       Fin(EEND_PARAM * MILLI), Fin(KE_PARAM))
        ELSE /\ arr[i].e = Fin(E0_PARAM * MILLI)
             /\ IsFinite(inputs[cur].ce) =>
                  arr[i].floor =
                    Fin((24 * (E0_PARAM * MILLI) * inputs[cur].ce.v) \div 1000)

C27_ToggleChangesSwitchOnly ==
  ("energy" \in DOMAIN inputs
   /\ inputs'["energy"].useSchedule # inputs["energy"].useSchedule) =>
    /\ \A f \in DOMAIN inputs["energy"] \ {"useSchedule"} :
         inputs'["energy"][f] = inputs["energy"][f]
    /\ inputs'["protocol"] = inputs["protocol"]

C27_SwitchSelectsEfficiency ==
  []C27_RowFollowsSwitch /\ [][C27_ToggleChangesSwitchOnly]_vars

C27_Witness ==
  /\ pc = "scan"
  /\ cur = "energy"
  /\ changes >= 1
  /\ idx >= 2
  /\ ~inputs[cur].useSchedule
  /\ arr[idx].e = Fin(E0_PARAM * MILLI)
  /\ arr[idx].floor = Fin(33600)
  /\ series[cur][idx].e.v < E0_PARAM * MILLI

\* C28: the panels of App.tsx and of unnamed/part_002 are the same model: with
\* e0, eEnd, ke and the premium rate of part_002 set to the constants of
\* App.tsx and the other inputs and the start date equal, every row the loop of
\* App.tsx has processed is the row of part_002, cumulative profit included
C28_SameRowsAsFreeInputVersion ==
  (pc \in {"scan", "return"} /\ idx >= 1) =>
    LET in2 == IF cur = "energy" THEN inputs[cur] @@ Part2EnergyPinned
               ELSE inputs[cur] @@ Part2ProtocolPinned
        row2 == IF cur = "energy" THEN Part2EnergyRow(in2, startDate[cur], idx - 1)
                ELSE Part2ProtocolRow(in2, startDate[cur], idx - 1)
        prev == IF idx = 1 THEN NNeg(Part2InitialCost(in2)) ELSE arr[idx - 1].profit
        profit2 == IF cur = "energy" THEN Part2EnergyAccumulate(prev, row2, in2)
                   ELSE Part2ProtocolAccumulate(prev, row2, in2)
    IN /\ DOMAIN arr[idx] = DOMAIN row2 \cup {"profit"}
       /\ \A f \in DOMAIN row2 : arr[idx][f] = row2[f]
       /\ arr[idx].profit = profit2

C28_Witness ==
  /\ pc = "return"
  /\ cur = "energy"
  /\ changes >= 1
  /\ inputs[cur].premium0 = Fin(1500)
  /\ IsFinite(arr[MONTHS + 1].profit)
  /\ arr[MONTHS + 1].prem =
       premiumPath(MONTHS, Fin(1500), Part2EnergyPinned.kPremium)
  /\ arr[MONTHS + 1].profit =
       Part2EnergyAccumulate(arr[MONTHS].profit, arr[MONTHS + 1],
                             inputs[cur] @@ Part2EnergyPinned)

\* C29: the panels share no state: a step that changes an input of one panel
\* leaves the inputs and the series of every other panel as they were, the run
\* it starts is a run of that panel, and a run replaces the series of its own
\* panel alone
C29_StepTouchesOnePanel ==
  /\ \A p \in DOMAIN inputs :
       inputs'[p] # inputs[p] =>
         /\ \A q \in DOMAIN inputs \ {p} : inputs'[q] = inputs[q]
         /\ \A q \in DOMAIN series \ {p} : series'[q] = series[q]
         /\ startDate' = startDate
         /\ pc' = "scan" => cur' = p
  /\ \A q \in DOMAIN series : series'[q] # series[q] => q = cur

C30_ActiveAndRendered ==
  /\ tabs.value = Undefined =>
       TabsCurrent = IF tabs.clicked = <<>>
                     THEN (IF tabs.defaultValue = Undefined THEN ""
                           ELSE tabs.defaultValue)
                     ELSE tabs.clicked[Len(tabs.clicked)]
  /\ tabs.value # Undefined => TabsCurrent = tabs.value
  /\ Cardinality(TabsRendered) <= 1
  /\ TabsRendered = {TabsCurrent} \cap TabValues

C30_ClickWhenControlled ==
  (tabs.value # Undefined /\ tabs'.clicked # tabs.clicked) =>
    /\ tabs'.value = tabs.value
    /\ tabs'.internal = tabs.internal
    /\ tabs'.calls = IF tabs.onValueChange
                     THEN Append(tabs.calls, tabs'.clicked[Len(tabs'.clicked)])
                     ELSE tabs.calls

C30_TabsActiveValue == []C30_ActiveAndRendered /\ [][C30_ClickWhenControlled]_vars

C30_Witness ==
  /\ tabs.value = Undefined
  /\ tabs.defaultValue = "energy"
  /\ tabs.clicked = <<"protocol", "formulas">>
  /\ TabsCurrent = "formulas"
  /\ TabsRendered = {"formulas"}

====
